---- MODULE Spec2Model ----
(***************************************************************************)
(* A model of crates/ra_vfs/src/lib.rs: the root filters, the root set and *)
(* the Vfs reconciliation engine (files arena, per-root file sets, pending *)
(* change log), with the worker's results and the file system as inputs.   *)
(*                                                                          *)
(* Conventions.  A path is a sequence of component names; Option<T> is a   *)
(* sequence of length at most one (None == << >>, Some(x) == <<x>>); arena *)
(* ids (VfsRoot, VfsFile) are the 1-based positions of the arena.           *)
(***************************************************************************)
EXTENDS Naturals, Sequences, FiniteSets

VARIABLES roots, files, root2files, pending_changes, worker_tasks, panicked,
          produced, delivered, last

vars == <<roots, files, root2files, pending_changes, worker_tasks, panicked,
          produced, delivered, last>>

(***************************************************************************)
(* Bounds of the model.                                                     *)
(***************************************************************************)
\* the files arena holds at most MaxFiles records
MaxFiles == 2
\* at most MaxEvents events are produced in one behaviour
MaxEvents == 3
\* Vfs::new is given at most MaxRoots directories
MaxRoots == 2

None == << >>
Some(x) == <<x>>

(***************************************************************************)
(* Inputs: the configured root directories, the absolute paths handed to   *)
(* the path operations, the relative paths the worker reports, the texts.  *)
(***************************************************************************)
DirA == <<"a">>
DirB == <<"a", "b">>
RootLists == {<<DirA, DirB>>, <<DirB, DirA>>}

\* the files the analysis host loads, one in each root, and the file open
\* in the editor
FilePaths == { <<"a", "f.rs">>, <<"a", "b", "f.rs">> }
EditorPaths == { <<"a", "f.rs">> }
\* a directory inside the nested root
DirPaths == { <<"a", "b", "target">> }
\* a file that is no source file, and a source file outside every root
OtherPaths == { <<"a", "h.txt">>, <<"c", "f.rs">> }
Paths == FilePaths \cup DirPaths \cup OtherPaths
\* the relative paths the worker reports
RelPaths == { <<"f.rs">> }
\* the texts of editor buffers, of the worker's single-file results, of
\* synchronous disk reads and of directory scans
OverlayTexts == {"X"}
TaskTexts == {"Y"}
ReadTexts == {"Z"}
ScanTexts == {"W"}

\* the file system's answers to path.is_dir()
IsDirAnswers(path) == IF path \in DirPaths THEN BOOLEAN ELSE {FALSE}

\* fs::read_to_string: Ok(text) or Err
ReadResults == {Some(t) : t \in ReadTexts} \cup {None}

\* OsStr::len of a component name
NameLen(c) ==
  CASE c = "a" -> 1
    [] c = "b" -> 1
    [] c = "c" -> 1
    [] c = "f.rs" -> 4
    [] c = "h.txt" -> 5
    [] c = "target" -> 6
    [] OTHER -> 1

RECURSIVE os_str_len(_)
\* PathBuf::as_os_str().len(): every component follows a separator
os_str_len(p) ==
  IF p = << >> THEN 0 ELSE 1 + NameLen(Head(p)) + os_str_len(Tail(p))

\* Path::starts_with: component-wise prefix
starts_with(p, base) ==
  /\ Len(base) <= Len(p)
  /\ SubSeq(p, 1, Len(base)) = base

\* Path::strip_prefix(..).ok()
strip_prefix(p, base) ==
  IF starts_with(p, base) THEN Some(SubSeq(p, Len(base) + 1, Len(p))) ELSE None

\* RelativePath::extension
extension(rel) ==
  IF rel = << >> THEN None
  ELSE CASE rel[Len(rel)] = "f.rs" -> Some("rs")
         [] rel[Len(rel)] = "h.txt" -> Some("txt")
         [] OTHER -> None

\* default_filter; is_dir is the file system's answer to path.is_dir()
default_filter(is_dir, rel_path) ==
  IF is_dir
  THEN \A i \in 1..Len(rel_path) :
         ~ ( \/ (i = 1 /\ rel_path[i] = "target")
             \/ rel_path[i] = ".git"
             \/ rel_path[i] = "node_modules" )
  ELSE extension(rel_path) = Some("rs")

\* RootFilter::new
RootFilter_new(root, excluded_dirs) ==
  [root |-> root, excluded_dirs |-> excluded_dirs]

\* RootFilter::can_contain
can_contain(filter, path, is_dir) ==
  LET rel_path == strip_prefix(path, filter.root)
  IN  IF rel_path = None THEN None
      ELSE IF ~ default_filter(is_dir, rel_path[1]) THEN None
      ELSE rel_path

RECURSIVE insert_by_len(_, _)
\* one step of the stable sort by Reverse(len): p goes after every element
\* that is at least as long
insert_by_len(sorted, p) ==
  IF sorted = << >> THEN <<p>>
  ELSE IF os_str_len(Head(sorted)) >= os_str_len(p)
       THEN <<Head(sorted)>> \o insert_by_len(Tail(sorted), p)
       ELSE <<p>> \o sorted

RECURSIVE sort_by_len_desc(_)
\* paths.sort_by_key(|it| Reverse(it.as_os_str().len())), a stable sort
sort_by_len_desc(paths) ==
  IF paths = << >> THEN << >>
  ELSE insert_by_len(sort_by_len_desc(SubSeq(paths, 1, Len(paths) - 1)),
                     paths[Len(paths)])

\* Roots::new
Roots_new(input) ==
  LET paths == sort_by_len_desc(input)
  IN  [i \in 1..Len(paths) |->
         RootFilter_new(paths[i],
           SelectSeq(SubSeq(paths, 1, i - 1),
                     LAMBDA it : starts_with(it, paths[i])))]

RECURSIVE find_from(_, _, _, _)
find_from(rs, i, path, is_dir) ==
  IF i > Len(rs) THEN None
  ELSE LET rel == can_contain(rs[i], path, is_dir)
       IN  IF rel # None THEN Some([root |-> i, path |-> rel[1]])
           ELSE find_from(rs, i + 1, path, is_dir)

\* Roots::find: the first root, in arena order, whose filter accepts the path
Roots_find(rs, path, is_dir) == find_from(rs, 1, path, is_dir)

(***************************************************************************)
(* The Vfs.  The operators below work on a record                          *)
(*   v = [files, root2files, pending_changes, panicked]                    *)
(* holding the fields of Vfs that the handlers write.                       *)
(***************************************************************************)
VfsFileData(root, path, is_overlayed, text) ==
  [root |-> root, path |-> path, is_overlayed |-> is_overlayed, text |-> text]

\* enum VfsChange, one record shape for the four variants
VfsChange_AddRoot(root, fs) ==
  [kind |-> "AddRoot", root |-> root, file |-> 0, path |-> << >>, text |-> "",
   files |-> fs]
VfsChange_AddFile(root, file, path, text) ==
  [kind |-> "AddFile", root |-> root, file |-> file, path |-> path,
   text |-> text, files |-> << >>]
VfsChange_RemoveFile(root, file, path) ==
  [kind |-> "RemoveFile", root |-> root, file |-> file, path |-> path,
   text |-> "", files |-> << >>]
VfsChange_ChangeFile(file, text) ==
  [kind |-> "ChangeFile", root |-> 0, file |-> file, path |-> << >>,
   text |-> text, files |-> << >>]

\* self.pending_changes.push(change)
push(v, change) == [v EXCEPT !.pending_changes = Append(@, change)]

\* add_file over an arena with removal: the slot of a removed file of the
\* root is taken again before a new one is allocated
add_file_reusing(v, root, path, text, is_overlayed) ==
  LET free == {f \in 1..Len(v.files) :
                 v.files[f].root = root /\ f \notin v.root2files[root]}
      file == IF free = {} THEN Len(v.files) + 1
              ELSE CHOOSE f \in free : \A g \in free : f <= g
      data == VfsFileData(root, path, is_overlayed, text)
  IN  [v |-> [v EXCEPT !.files = IF free = {} THEN Append(@, data)
                                  ELSE [@ EXCEPT ![file] = data],
                       !.root2files[root] = @ \cup {file}],
       file |-> file]

\* Vfs::add_file: always allocates a new arena slot
add_file(v, root, path, text, is_overlayed) ==
  LET file == Len(v.files) + 1
  IN  [v |-> [v EXCEPT !.files = Append(@, VfsFileData(root, path, is_overlayed, text)),
                       !.root2files[root] = @ \cup {file}],
       file |-> file]

\* Vfs::change_file
change_file(v, file, new_text, is_overlayed) ==
  [v EXCEPT !.files[file].text = new_text,
            !.files[file].is_overlayed = is_overlayed]

\* remove_file that clears the record and leaves the handle in the file set
remove_file_keeping_member(v, file) ==
  LET root == v.files[file].root
      removed == file \in v.root2files[root]
  IN  [v EXCEPT !.files[file].text = "",
                !.files[file].path = << >>,
                !.panicked = @ \/ ~ removed]

\* remove_file that clears the text only and keeps the relative path
remove_file_keeping_path(v, file) ==
  LET root == v.files[file].root
      removed == file \in v.root2files[root]
  IN  [v EXCEPT !.files[file].text = "",
                !.root2files[root] = @ \ {file},
                !.panicked = @ \/ ~ removed]

\* Vfs::remove_file: the record stays in the arena with text and path
\* cleared; the assertion fails when the handle was not in its root's set
remove_file(v, file) ==
  LET root == v.files[file].root
      removed == file \in v.root2files[root]
  IN  [v EXCEPT !.files[file].text = "",
                !.files[file].path = << >>,
                !.root2files[root] = @ \ {file},
                !.panicked = @ \/ ~ removed]

\* Vfs::find_file: the first member of the root's set with that path
\* (the set holds at most one, see PathUnique)
find_file(v, root, path) ==
  LET found == {file \in v.root2files[root] : v.files[file].path = path}
  IN  IF found = {} THEN None ELSE Some(CHOOSE file \in found : TRUE)

\* Vfs::find_root
find_root(v, rs, path, is_dir) ==
  LET r == Roots_find(rs, path, is_dir)
  IN  IF r = None THEN None
      ELSE Some([root |-> r[1].root, path |-> r[1].path,
                 file |-> find_file(v, r[1].root, r[1].path)])

\* Vfs::do_add_file
do_add_file(v, root, path, text, is_overlay) ==
  LET a == add_file(v, root, path, text, is_overlay)
  IN  [v |-> push(a.v, VfsChange_AddFile(root, a.file, path, text)),
       ret |-> Some(a.file)]

\* do_change_file without the overlay guard: a disk event overwrites an
\* overlayed file
do_change_file_unguarded(v, file, text, is_overlay) ==
  push(change_file(v, file, text, is_overlay), VfsChange_ChangeFile(file, text))

\* Vfs::do_change_file
do_change_file(v, file, text, is_overlay) ==
  IF ~ is_overlay /\ v.files[file].is_overlayed THEN v
  ELSE push(change_file(v, file, text, is_overlay),
            VfsChange_ChangeFile(file, text))

\* do_remove_file that pushes no event
do_remove_file_silent(v, root, path, file, is_overlay) ==
  IF ~ is_overlay /\ v.files[file].is_overlayed THEN v
  ELSE remove_file(v, file)

\* Vfs::do_remove_file
do_remove_file(v, root, path, file, is_overlay) ==
  IF ~ is_overlay /\ v.files[file].is_overlayed THEN v
  ELSE push(remove_file(v, file), VfsChange_RemoveFile(root, file, path))

\* fs::read_to_string(path).unwrap_or_default()
unwrap_or_default(read) == IF read = None THEN "" ELSE read[1]

\* load that reads the disk again for a file that is already live
load_rereading(v, rs, path, is_dir, read) ==
  LET fr == find_root(v, rs, path, is_dir)
  IN  IF fr = None THEN [v |-> v, ret |-> None]
      ELSE IF fr[1].file # None
           THEN [v |-> change_file(v, fr[1].file[1], unwrap_or_default(read),
                                   FALSE),
                 ret |-> fr[1].file]
      ELSE LET text == unwrap_or_default(read)
               a == add_file(v, fr[1].root, fr[1].path, text, FALSE)
           IN  [v |-> push(a.v, VfsChange_AddFile(fr[1].root, a.file,
                                                  fr[1].path, text)),
                ret |-> Some(a.file)]

\* load that announces the file again when it is already live
load_announcing_existing(v, rs, path, is_dir, read) ==
  LET fr == find_root(v, rs, path, is_dir)
  IN  IF fr = None THEN [v |-> v, ret |-> None]
      ELSE IF fr[1].file # None
           THEN [v |-> push(v, VfsChange_AddFile(fr[1].root, fr[1].file[1],
                                 fr[1].path, v.files[fr[1].file[1]].text)),
                 ret |-> fr[1].file]
      ELSE LET text == unwrap_or_default(read)
               a == add_file(v, fr[1].root, fr[1].path, text, FALSE)
           IN  [v |-> push(a.v, VfsChange_AddFile(fr[1].root, a.file,
                                                  fr[1].path, text)),
                ret |-> Some(a.file)]

\* Vfs::load
load(v, rs, path, is_dir, read) ==
  LET fr == find_root(v, rs, path, is_dir)
  IN  IF fr = None THEN [v |-> v, ret |-> None]
      ELSE IF fr[1].file # None THEN [v |-> v, ret |-> fr[1].file]
      ELSE LET text == unwrap_or_default(read)
               a == add_file(v, fr[1].root, fr[1].path, text, FALSE)
           IN  [v |-> push(a.v, VfsChange_AddFile(fr[1].root, a.file,
                                                  fr[1].path, text)),
                ret |-> Some(a.file)]

\* Vfs::path2file (file_for_path has the same body)
path2file(v, rs, path, is_dir) ==
  LET fr == find_root(v, rs, path, is_dir)
  IN  IF fr # None /\ fr[1].file # None THEN fr[1].file ELSE None

\* Vfs::file_for_path
file_for_path(v, rs, path, is_dir) ==
  LET fr == find_root(v, rs, path, is_dir)
  IN  IF fr # None /\ fr[1].file # None THEN fr[1].file ELSE None

\* Vfs::file2path: the root's directory joined with the relative path
file2path(v, rs, file) == rs[v.files[file].root].root \o v.files[file].path

\* the map `exising` left empty
exising_of_none(v, root) == [p \in {} |-> 0]

\* the map `exising` of handle_task: relative path -> live file of the root
exising_of(v, root) ==
  [p \in {v.files[f].path : f \in v.root2files[root]} |->
     CHOOSE f \in v.root2files[root] : v.files[f].path = p]

RECURSIVE bulk_load_clobbering(_, _, _, _, _)
\* the loop of handle_task(BulkLoadRoot) that takes the scanned text for a
\* file that is already live
bulk_load_clobbering(v, root, exising, scan, cur_files) ==
  IF scan = << >> THEN [v |-> v, cur_files |-> cur_files]
  ELSE LET path == Head(scan).path
           text == Head(scan).text
       IN  IF path \in DOMAIN exising
           THEN LET file == exising[path]
                IN  bulk_load_clobbering(
                      change_file(v, file, text, FALSE), root, exising,
                      Tail(scan),
                      Append(cur_files, [file |-> file, path |-> path,
                                         text |-> text]))
           ELSE LET a == add_file(v, root, path, text, FALSE)
                IN  bulk_load_clobbering(a.v, root, exising, Tail(scan),
                      Append(cur_files, [file |-> a.file, path |-> path,
                                         text |-> text]))

RECURSIVE bulk_load(_, _, _, _, _)
\* the loop of handle_task(BulkLoadRoot): returns the Vfs and cur_files
bulk_load(v, root, exising, scan, cur_files) ==
  IF scan = << >> THEN [v |-> v, cur_files |-> cur_files]
  ELSE LET path == Head(scan).path
           text == Head(scan).text
       IN  IF path \in DOMAIN exising
           THEN LET file == exising[path]
                IN  bulk_load(v, root, exising, Tail(scan),
                      Append(cur_files, [file |-> file, path |-> path,
                                         text |-> v.files[file].text]))
           ELSE LET a == add_file(v, root, path, text, FALSE)
                IN  bulk_load(a.v, root, exising, Tail(scan),
                      Append(cur_files, [file |-> a.file, path |-> path,
                                         text |-> text]))

\* io::TaskResult, one record shape for the four variants
BulkLoadRoot(root, scan) ==
  [kind |-> "BulkLoadRoot", root |-> root, path |-> << >>, text |-> "",
   files |-> scan]
AddSingleFile(root, path, text) ==
  [kind |-> "AddSingleFile", root |-> root, path |-> path, text |-> text,
   files |-> << >>]
ChangeSingleFile(root, path, text) ==
  [kind |-> "ChangeSingleFile", root |-> root, path |-> path, text |-> text,
   files |-> << >>]
RemoveSingleFile(root, path) ==
  [kind |-> "RemoveSingleFile", root |-> root, path |-> path, text |-> "",
   files |-> << >>]

\* BulkLoadRoot handled with an AddRoot event that lists the new files only
handle_bulk_load_root_new_only(v, root, scan) ==
  LET b == bulk_load(v, root, exising_of(v, root), scan, << >>)
      IsNew(entry) == entry.file \notin v.root2files[root]
  IN  push(b.v, VfsChange_AddRoot(root, SelectSeq(b.cur_files, IsNew)))

\* Vfs::handle_task, TaskResult::BulkLoadRoot
handle_bulk_load_root(v, root, scan) ==
  LET b == bulk_load(v, root, exising_of(v, root), scan, << >>)
  IN  push(b.v, VfsChange_AddRoot(root, b.cur_files))

\* AddSingleFile handled without looking for the file first
handle_add_single_file_always(v, root, path, text) ==
  do_add_file(v, root, path, text, FALSE).v

\* Vfs::handle_task, TaskResult::AddSingleFile
handle_add_single_file(v, root, path, text) ==
  IF find_file(v, root, path) = None
  THEN do_add_file(v, root, path, text, FALSE).v
  ELSE v

\* Vfs::handle_task, TaskResult::ChangeSingleFile
handle_change_single_file(v, root, path, text) ==
  LET file == find_file(v, root, path)
  IN  IF file # None
      THEN do_change_file(v, file[1], text, FALSE)
      ELSE do_add_file(v, root, path, text, FALSE).v

\* Vfs::handle_task, TaskResult::RemoveSingleFile
handle_remove_single_file(v, root, path) ==
  LET file == find_file(v, root, path)
  IN  IF file # None
      THEN do_remove_file(v, root, path, file[1], FALSE)
      ELSE v

\* Vfs::handle_task
handle_task(v, task) ==
  CASE task.kind = "BulkLoadRoot" ->
         handle_bulk_load_root(v, task.root, task.files)
    [] task.kind = "AddSingleFile" ->
         handle_add_single_file(v, task.root, task.path, task.text)
    [] task.kind = "ChangeSingleFile" ->
         handle_change_single_file(v, task.root, task.path, task.text)
    [] task.kind = "RemoveSingleFile" ->
         handle_remove_single_file(v, task.root, task.path)

\* add_file_overlay that makes a new file without looking for a live one
add_file_overlay_always_adding(v, rs, path, is_dir, text) ==
  LET fr == find_root(v, rs, path, is_dir)
  IN  IF fr = None THEN [v |-> v, ret |-> None]
      ELSE do_add_file(v, fr[1].root, fr[1].path, text, TRUE)

\* Vfs::add_file_overlay
add_file_overlay(v, rs, path, is_dir, text) ==
  LET fr == find_root(v, rs, path, is_dir)
  IN  IF fr = None THEN [v |-> v, ret |-> None]
      ELSE IF fr[1].file # None
           THEN [v |-> do_change_file(v, fr[1].file[1], text, TRUE),
                 ret |-> fr[1].file]
           ELSE do_add_file(v, fr[1].root, fr[1].path, text, TRUE)

\* change_file_overlay that expects the path to resolve to a root as well
change_file_overlay_expecting_root(v, rs, path, is_dir, new_text) ==
  LET fr == find_root(v, rs, path, is_dir)
  IN  IF fr = None \/ fr[1].file = None THEN [v EXCEPT !.panicked = TRUE]
      ELSE do_change_file(v, fr[1].file[1], new_text, TRUE)

\* Vfs::change_file_overlay: file.expect(..) panics on None
change_file_overlay(v, rs, path, is_dir, new_text) ==
  LET fr == find_root(v, rs, path, is_dir)
  IN  IF fr = None THEN v
      ELSE IF fr[1].file = None THEN [v EXCEPT !.panicked = TRUE]
      ELSE do_change_file(v, fr[1].file[1], new_text, TRUE)

\* remove_file_overlay that returns None for a path with no live file
remove_file_overlay_lenient(v, rs, path, is_dir, read) ==
  LET fr == find_root(v, rs, path, is_dir)
  IN  IF fr = None \/ fr[1].file = None THEN [v |-> v, ret |-> None]
      ELSE IF read # None
           THEN [v |-> do_change_file(v, fr[1].file[1], read[1], TRUE),
                 ret |-> fr[1].file]
           ELSE [v |-> do_remove_file(v, fr[1].root, fr[1].path,
                                      fr[1].file[1], TRUE),
                 ret |-> fr[1].file]

\* Vfs::remove_file_overlay: file.expect(..) panics on None; read is the
\* result of fs::read_to_string(&full_path)
remove_file_overlay(v, rs, path, is_dir, read) ==
  LET fr == find_root(v, rs, path, is_dir)
  IN  IF fr = None THEN [v |-> v, ret |-> None]
      ELSE IF fr[1].file = None
           THEN [v |-> [v EXCEPT !.panicked = TRUE], ret |-> None]
      ELSE IF read # None
           THEN [v |-> do_change_file(v, fr[1].file[1], read[1], TRUE),
                 ret |-> fr[1].file]
           ELSE [v |-> do_remove_file(v, fr[1].root, fr[1].path,
                                      fr[1].file[1], TRUE),
                 ret |-> fr[1].file]

\* commit_changes that returns a copy of the log and does not clear it
commit_changes_keeping(v) == [v |-> v, ret |-> v.pending_changes]

\* Vfs::commit_changes: mem::replace(&mut self.pending_changes, Vec::new())
commit_changes(v) ==
  [v |-> [v EXCEPT !.pending_changes = << >>], ret |-> v.pending_changes]

(***************************************************************************)
(* The state machine.  One action per public operation of Vfs; the worker  *)
(* results and the file system's answers are inputs.                        *)
(***************************************************************************)
\* the fields of Vfs the handlers write, as one record
Self ==
  [files |-> files, root2files |-> root2files,
   pending_changes |-> pending_changes, panicked |-> panicked]

\* the call made by the latest step: the operation, the root and relative
\* path it is about (0 and << >> when the path resolves to no root), the
\* text it carries (for load and remove_file_overlay: what the disk read
\* gave, "" when it failed) and the scanned files of a BulkLoadRoot
Call(op, root, path, text, scan) ==
  [op |-> op, root |-> root, path |-> path, text |-> text, scan |-> scan]
PathCall(op, path, is_dir, text) ==
  LET r == Roots_find(roots, path, is_dir)
  IN  IF r = None THEN Call(op, 0, << >>, text, << >>)
      ELSE Call(op, r[1].root, r[1].path, text, << >>)
\* the text a disk read gave, "" when it failed
ReadText(read) == IF read = None THEN "" ELSE read[1]
TaskCall(task) == Call(task.kind, task.root, task.path, task.text, task.files)

\* what a directory scan can report: a list of files, no path twice
Scans ==
  UNION { { scan \in [1..n -> [path : RelPaths, text : ScanTexts]] :
              \A i, j \in 1..n : scan[i].path = scan[j].path => i = j } :
          n \in 0..Cardinality(RelPaths) }

\* Vfs::new: the root set, one empty file set and one AddRoot task per root
InitWith(inputs) ==
  /\ \E input \in inputs : roots = Roots_new(input)
  /\ files = << >>
  /\ root2files = [root \in 1..Len(roots) |-> {}]
  /\ pending_changes = << >>
  /\ worker_tasks = 1..Len(roots)
  /\ panicked = FALSE
  /\ produced = << >>
  /\ delivered = << >>
  /\ last = [call |-> Call("new", 0, << >>, "", << >>), ret |-> None, noop |-> TRUE,
             rep |-> FALSE]

Init == InitWith(RootLists)

\* the effect of a call that leaves the Vfs as v with result ret; produced
\* records every event pushed, last.noop that the call left the Vfs as it
\* was, last.rep that an AddSingleFile (or a commit) repeats the call made
\* just before it
Step(call, v, ret) ==
  /\ ~ panicked
  /\ Len(v.files) <= MaxFiles
  /\ Len(v.pending_changes) >= Len(pending_changes)
  /\ Len(produced) + (Len(v.pending_changes) - Len(pending_changes)) <= MaxEvents
  /\ files' = v.files
  /\ root2files' = v.root2files
  /\ pending_changes' = v.pending_changes
  /\ panicked' = v.panicked
  /\ produced' = produced \o SubSeq(v.pending_changes, Len(pending_changes) + 1,
                                     Len(v.pending_changes))
  /\ last' = [call |-> call, ret |-> ret, noop |-> (v = Self),
              rep |-> (call.op = "AddSingleFile" /\ last.call = call)]
  /\ UNCHANGED <<roots, delivered>>

LoadOn(paths) ==
  \E path \in paths : \E is_dir \in IsDirAnswers(path), read \in ReadResults :
    /\ is_dir => read = None
    /\ LET r == load(Self, roots, path, is_dir, read)
       IN  Step(PathCall("load", path, is_dir, ReadText(read)), r.v, r.ret)
    /\ UNCHANGED worker_tasks

Load == LoadOn(FilePaths)

HandleBulkLoadRoot ==
  \E root \in worker_tasks, scan \in Scans :
    /\ Step(TaskCall(BulkLoadRoot(root, scan)),
            handle_task(Self, BulkLoadRoot(root, scan)), None)
    /\ worker_tasks' = worker_tasks \ {root}

HandleAddSingleFile ==
  \E root \in 1..Len(roots), path \in RelPaths, text \in TaskTexts :
    /\ Step(TaskCall(AddSingleFile(root, path, text)),
            handle_task(Self, AddSingleFile(root, path, text)), None)
    /\ UNCHANGED worker_tasks

HandleChangeSingleFile ==
  \E root \in 1..Len(roots), path \in RelPaths, text \in TaskTexts :
    /\ Step(TaskCall(ChangeSingleFile(root, path, text)),
            handle_task(Self, ChangeSingleFile(root, path, text)), None)
    /\ UNCHANGED worker_tasks

HandleRemoveSingleFile ==
  \E root \in 1..Len(roots), path \in RelPaths :
    /\ Step(TaskCall(RemoveSingleFile(root, path)),
            handle_task(Self, RemoveSingleFile(root, path)), None)
    /\ UNCHANGED worker_tasks

AddFileOverlayOn(paths) ==
  \E path \in paths : \E is_dir \in IsDirAnswers(path), text \in OverlayTexts :
    /\ LET r == add_file_overlay(Self, roots, path, is_dir, text)
       IN  Step(PathCall("add_file_overlay", path, is_dir, text), r.v, r.ret)
    /\ UNCHANGED worker_tasks

AddFileOverlay == AddFileOverlayOn(EditorPaths)

ChangeFileOverlayOn(paths) ==
  \E path \in paths : \E is_dir \in IsDirAnswers(path), text \in OverlayTexts :
    /\ Step(PathCall("change_file_overlay", path, is_dir, text),
            change_file_overlay(Self, roots, path, is_dir, text), None)
    /\ UNCHANGED worker_tasks

ChangeFileOverlay == ChangeFileOverlayOn(EditorPaths)

RemoveFileOverlayOn(paths) ==
  \E path \in paths : \E is_dir \in IsDirAnswers(path), read \in ReadResults :
    /\ is_dir => read = None
    /\ LET r == remove_file_overlay(Self, roots, path, is_dir, read)
       IN  Step(PathCall("remove_file_overlay", path, is_dir,
                        ReadText(read)), r.v, r.ret)
    /\ UNCHANGED worker_tasks

RemoveFileOverlay == RemoveFileOverlayOn(EditorPaths)

CommitChanges ==
  /\ ~ panicked
  /\ LET r == commit_changes(Self)
     IN  /\ pending_changes' = r.v.pending_changes
         /\ delivered' = delivered \o r.ret
  /\ last' = [call |-> Call("commit_changes", 0, << >>, "", << >>), ret |-> None,
              noop |-> (pending_changes = << >>),
              rep |-> (last.call.op = "commit_changes")]
  /\ UNCHANGED <<roots, files, root2files, worker_tasks, panicked, produced>>

Next ==
  \/ Load
  \/ HandleBulkLoadRoot
  \/ HandleAddSingleFile
  \/ HandleChangeSingleFile
  \/ HandleRemoveSingleFile
  \/ AddFileOverlay
  \/ ChangeFileOverlay
  \/ RemoveFileOverlay
  \/ CommitChanges

Spec == Init /\ [][Next]_vars

(***************************************************************************)
(* The path operations alone, called with a path in a root and with paths  *)
(* that no root filter accepts.  path2file and file_for_path take &self    *)
(* and leave the Vfs as it is.                                              *)
(***************************************************************************)
Path2FileOn(paths) ==
  \E path \in paths : \E is_dir \in IsDirAnswers(path) :
    /\ Step(PathCall("path2file", path, is_dir, ""), Self,
            path2file(Self, roots, path, is_dir))
    /\ UNCHANGED worker_tasks

FileForPathOn(paths) ==
  \E path \in paths : \E is_dir \in IsDirAnswers(path) :
    /\ Step(PathCall("file_for_path", path, is_dir, ""), Self,
            file_for_path(Self, roots, path, is_dir))
    /\ UNCHANGED worker_tasks

\* the paths the operations are called with: one in a root, two outside
ProbePaths == EditorPaths \cup OtherPaths

LoadProbe == LoadOn(ProbePaths)
Path2FileProbe == Path2FileOn(ProbePaths)
FileForPathProbe == FileForPathOn(ProbePaths)
AddFileOverlayProbe == AddFileOverlayOn(ProbePaths)
ChangeFileOverlayProbe == ChangeFileOverlayOn(ProbePaths)
RemoveFileOverlayProbe == RemoveFileOverlayOn(ProbePaths)

NextPathOps ==
  \/ LoadProbe
  \/ Path2FileProbe
  \/ FileForPathProbe
  \/ AddFileOverlayProbe
  \/ ChangeFileOverlayProbe
  \/ RemoveFileOverlayProbe
  \/ CommitChanges

SpecPathOps == Init /\ [][NextPathOps]_vars

(***************************************************************************)
(* Vfs::new called with every list of at most MaxRoots directories of      *)
(* RootDirs, a directory twice included, followed by loads and queries.    *)
(***************************************************************************)
RootDirs == {DirA, DirB, <<"c">>, <<"a", "b", "target">>}
AnyRootLists == UNION {[1..n -> RootDirs] : n \in 0..MaxRoots}

InitAnyRoots == InitWith(AnyRootLists)

LoadAnyPath == LoadOn(Paths)
Path2File == Path2FileOn(Paths)
FileForPath == FileForPathOn(Paths)

NextAnyRoots ==
  \/ LoadAnyPath
  \/ Path2File
  \/ FileForPath

SpecAnyRoots == InitAnyRoots /\ [][NextAnyRoots]_vars

(***************************************************************************)
(* State functions used by the properties.                                  *)
(***************************************************************************)
RootIds == 1..Len(roots)
Handles == 1..Len(files)
\* the live file handles: the members of the per-root file sets
Live == UNION {root2files[root] : root \in RootIds}
\* the live file of a root at a relative path, as an Option
FileAt(root, path) == find_file(Self, root, path)
\* the same in the state a step leads to
SelfNext ==
  [files |-> files', root2files |-> root2files',
   pending_changes |-> pending_changes', panicked |-> panicked']
FileAtNext(root, path) == find_file(SelfNext, root, path)
\* the operations that write an overlay
OverlayOps == {"add_file_overlay", "change_file_overlay", "remove_file_overlay"}
\* event e announces handle file as added
Announces(e, file) ==
  \/ e.kind = "AddFile" /\ e.file = file
  \/ e.kind = "AddRoot" /\ \E k \in 1..Len(e.files) : e.files[k].file = file
\* the handles event e announces for the relative path of a root
AnnouncedAt(e, root, path) ==
  IF e.root # root THEN {}
  ELSE IF e.kind = "AddFile" THEN (IF e.path = path THEN {e.file} ELSE {})
  ELSE IF e.kind = "AddRoot"
       THEN {e.files[k].file : k \in {k \in 1..Len(e.files) : e.files[k].path = path}}
  ELSE {}

(***************************************************************************)
(* C1  Overlay precedence.  (a) add_file_overlay on a path inside a root   *)
(* leaves a live file there, overlayed, holding the overlay text.  (b) As  *)
(* long as no overlay operation is made, every step leaves an overlayed    *)
(* live file live, under the same handle, overlayed and with the same      *)
(* text.  (c) Handling ChangeSingleFile or RemoveSingleFile for the root   *)
(* and path of an overlayed live file changes no file record, no file set  *)
(* and appends nothing to the pending change log.                           *)
(***************************************************************************)
OverlayPrecedenceStep ==
  /\ (last'.call.op = "add_file_overlay" /\ last'.call.root # 0) =>
        LET file == FileAtNext(last'.call.root, last'.call.path)
        IN  /\ file # None
            /\ last'.ret = file
            /\ files'[file[1]].is_overlayed
            /\ files'[file[1]].text = last'.call.text
  /\ \A root \in RootIds, path \in RelPaths :
        LET file == FileAt(root, path)
        IN  (file # None /\ files[file[1]].is_overlayed) =>
              /\ last'.call.op \notin OverlayOps =>
                    /\ FileAtNext(root, path) = file
                    /\ files'[file[1]] = files[file[1]]
              /\ ( /\ last'.call.op \in {"ChangeSingleFile", "RemoveSingleFile"}
                   /\ last'.call.root = root
                   /\ last'.call.path = path ) =>
                    /\ files' = files
                    /\ root2files' = root2files
                    /\ pending_changes' = pending_changes

OverlayPrecedence == [][OverlayPrecedenceStep]_vars

\* a ChangeSingleFile with another text was handled, and dropped, for a file
\* that add_file_overlay created
OverlayPrecedenceWitness ==
  /\ last.call.op = "ChangeSingleFile"
  /\ last.noop
  /\ LET file == FileAt(last.call.root, last.call.path)
     IN  /\ file # None
         /\ files[file[1]].is_overlayed
         /\ files[file[1]].text \in OverlayTexts
         /\ files[file[1]].text # last.call.text
         /\ \E i \in 1..Len(produced) :
              produced[i] = VfsChange_AddFile(last.call.root, file[1],
                              last.call.path, files[file[1]].text)

(***************************************************************************)
(* C2  Overlay-remove-reverts-to-disk, as claimed: when a live file has    *)
(* overlay text X and the disk read succeeds with Y, remove_file_overlay   *)
(* leaves the file live with text Y and the overlay flag cleared, and      *)
(* appends exactly one ChangeFile event.                                    *)
(***************************************************************************)
OverlayRemoveRevertsStep ==
  ( /\ last'.call.op = "remove_file_overlay"
    /\ last'.call.root # 0
    /\ last'.call.text \in ReadTexts ) =>
    LET file == FileAt(last'.call.root, last'.call.path)
    IN  ( /\ file # None
          /\ files[file[1]].is_overlayed
          /\ files[file[1]].text \in OverlayTexts ) =>
          /\ FileAtNext(last'.call.root, last'.call.path) = file
          /\ files'[file[1]].text = last'.call.text
          /\ files'[file[1]].is_overlayed = FALSE
          /\ pending_changes' =
               Append(pending_changes,
                      VfsChange_ChangeFile(file[1], last'.call.text))

OverlayRemoveRevertsToDisk == [][OverlayRemoveRevertsStep]_vars

PathProjectionKeptStep ==
  \A file \in Handles :
    file2path(SelfNext, roots', file) = file2path(Self, roots, file)

PathProjectionStep ==
  \A file \in Handles :
    /\ file \in Live' => file2path(SelfNext, roots', file)
                           = file2path(Self, roots, file)
    /\ file \notin Live' => file2path(SelfNext, roots', file)
                              = roots[files[file].root].root

NestedRootPrecedence ==
  \A path \in Paths : \A is_dir \in IsDirAnswers(path) :
    starts_with(path, DirB) =>
      LET r == Roots_find(roots, path, is_dir)
      IN  r = None \/ roots[r[1].root].root = DirB

(***************************************************************************)
(* C6  Bulk-add non-clobber: when BulkLoadRoot for a root is handled and   *)
(* the scan lists, with another text, the path of a file of the root that  *)
(* is already live, the file keeps its handle, text and overlay flag, no   *)
(* second record is made for the path, and the AddRoot event appended      *)
(* lists the file once, with its handle and its own text.                   *)
(***************************************************************************)
BulkAddNonClobberStep ==
  last'.call.op = "BulkLoadRoot" =>
    LET root == last'.call.root
        scan == last'.call.scan
    IN  \A i \in 1..Len(scan) :
          LET file == FileAt(root, scan[i].path)
          IN  (file # None /\ files[file[1]].text # scan[i].text) =>
                /\ FileAtNext(root, scan[i].path) = file
                /\ files'[file[1]] = files[file[1]]
                /\ \A other \in 1..Len(files') :
                     (files'[other].root = root
                        /\ files'[other].path = scan[i].path) => other = file[1]
                /\ Len(pending_changes') = Len(pending_changes) + 1
                /\ LET e == pending_changes'[Len(pending_changes')]
                   IN  /\ e.kind = "AddRoot"
                       /\ e.root = root
                       /\ Len(e.files) = Len(scan)
                       /\ e.files[i] = [file |-> file[1], path |-> scan[i].path,
                                        text |-> files[file[1]].text]

BulkAddNonClobber == [][BulkAddNonClobberStep]_vars

\* a BulkLoadRoot whose scan listed, with another text, a file announced
\* before the scan was handled
BulkAddNonClobberWitness ==
  /\ last.call.op = "BulkLoadRoot"
  /\ \E i \in 1..Len(last.call.scan) :
       LET file == FileAt(last.call.root, last.call.scan[i].path)
       IN  /\ file # None
           /\ files[file[1]].text # last.call.scan[i].text
           /\ \E j \in 1..(Len(produced) - 1) :
                /\ produced[j].kind = "AddFile"
                /\ produced[j].file = file[1]

(***************************************************************************)
(* C7  Commit drains exactly once: commit_changes returns the pending log  *)
(* as it is and leaves it empty, so that a commit right after a commit     *)
(* returns nothing; and at every moment the events produced so far are     *)
(* the events delivered by the commits so far, in order, followed by the   *)
(* pending log.                                                             *)
(***************************************************************************)
CommitDrainsStep ==
  /\ last'.call.op = "commit_changes" =>
        /\ delivered' = delivered \o pending_changes
        /\ pending_changes' = << >>
        /\ last.call.op = "commit_changes" => delivered' = delivered
  /\ produced' = delivered' \o pending_changes'

CommitDrainsOnce == [][CommitDrainsStep]_vars

\* events were delivered by two commits, and a commit right after the
\* second one returned nothing
CommitDrainsOnceWitness ==
  /\ last.call.op = "commit_changes"
  /\ last.rep
  /\ last.noop
  /\ pending_changes = << >>
  /\ Len(delivered) >= 2
  /\ delivered = produced

(***************************************************************************)
(* C8  Idempotent single-add: handling AddSingleFile for a path with no    *)
(* live file makes one record, not overlayed, and appends one AddFile      *)
(* event, after which the file is live; handling it for a path whose file  *)
(* is live (so handling the same result again) changes no file record, no  *)
(* file set and not the pending log.                                        *)
(***************************************************************************)
IdempotentSingleAddStep ==
  last'.call.op = "AddSingleFile" =>
    LET root == last'.call.root
        path == last'.call.path
        text == last'.call.text
        new == Len(files) + 1
    IN  /\ FileAt(root, path) = None =>
              /\ files' = Append(files, VfsFileData(root, path, FALSE, text))
              /\ root2files' = [root2files EXCEPT ![root] = @ \cup {new}]
              /\ pending_changes' =
                   Append(pending_changes,
                          VfsChange_AddFile(root, new, path, text))
        /\ FileAt(root, path) # None =>
              /\ files' = files
              /\ root2files' = root2files
              /\ pending_changes' = pending_changes
        /\ FileAtNext(root, path) # None
        /\ last'.rep =>
              /\ files' = files
              /\ root2files' = root2files
              /\ pending_changes' = pending_changes

IdempotentSingleAdd == [][IdempotentSingleAddStep]_vars

\* the same AddSingleFile was handled twice in a row: the file it made is
\* live, not overlayed, and announced by exactly one AddFile event
IdempotentSingleAddWitness ==
  /\ last.call.op = "AddSingleFile"
  /\ last.rep
  /\ last.noop
  /\ LET file == FileAt(last.call.root, last.call.path)
     IN  /\ file # None
         /\ ~ files[file[1]].is_overlayed
         /\ files[file[1]].text = last.call.text
         /\ Cardinality({i \in 1..Len(produced) :
                           /\ produced[i].kind = "AddFile"
                           /\ produced[i].root = last.call.root
                           /\ produced[i].path = last.call.path}) = 1
         /\ produced[Len(produced)] =
              VfsChange_AddFile(last.call.root, file[1], last.call.path,
                                last.call.text)

(***************************************************************************)
(* C9  Path uniqueness: every live file handle is in the file set of       *)
(* exactly one root, the root of its record, and no two live handles of a  *)
(* root have the same relative path.                                        *)
(***************************************************************************)
PathUnique ==
  /\ \A file \in Live :
       /\ file \in Handles
       /\ \A root \in RootIds :
            file \in root2files[root] <=> files[file].root = root
  /\ \A root \in RootIds : \A f1, f2 \in root2files[root] :
       files[f1].path = files[f2].path => f1 = f2

\* a BulkLoadRoot was handled for a root that already had a live file at a
\* scanned path, and both roots hold a live file at the same relative path
PathUniqueWitness ==
  /\ last.call.op = "BulkLoadRoot"
  /\ last.call.scan # << >>
  /\ \E i \in 1..(Len(produced) - 1) :
       /\ produced[i].kind = "AddFile"
       /\ produced[i].root = last.call.root
       /\ produced[i].path = last.call.scan[1].path
       /\ produced[i].file \in root2files[last.call.root]
  /\ \E f1, f2 \in Live :
       /\ files[f1].root # files[f2].root
       /\ files[f1].path = files[f2].path

(***************************************************************************)
(* C10  No duplicate announcement, as claimed: in the pending log no       *)
(* handle is announced as added twice (by an AddFile event or an entry of  *)
(* an AddRoot event) without a RemoveFile event for it in between.         *)
(***************************************************************************)
NoDuplicateAnnouncement ==
  \A i \in 1..Len(pending_changes) : \A j \in (i + 1)..Len(pending_changes) :
    \A file \in Handles :
      (Announces(pending_changes[i], file) /\ Announces(pending_changes[j], file)) =>
        \E k \in (i + 1)..(j - 1) :
          /\ pending_changes[k].kind = "RemoveFile"
          /\ pending_changes[k].file = file

(***************************************************************************)
(* C10 as amended: a handle is announced by at most one AddFile event, and *)
(* no event before that AddFile event names the handle; a handle is named  *)
(* at most once in the list of an AddRoot event.  (An AddRoot event does   *)
(* announce again the live files that were announced before it.)           *)
(***************************************************************************)
SingleAddFileAnnouncement ==
  \A j \in 1..Len(produced) :
    /\ produced[j].kind = "AddFile" =>
         \A i \in 1..(j - 1) :
           /\ produced[i].file # produced[j].file
           /\ ~ Announces(produced[i], produced[j].file)
    /\ produced[j].kind = "AddRoot" =>
         \A k, l \in 1..Len(produced[j].files) :
           produced[j].files[k].file = produced[j].files[l].file => k = l

\* the pending log announces a handle by an AddFile event and again by the
\* AddRoot event that follows it
SingleAddFileAnnouncementWitness ==
  \E i \in 1..Len(pending_changes) : \E j \in (i + 1)..Len(pending_changes) :
    /\ pending_changes[i].kind = "AddFile"
    /\ pending_changes[j].kind = "AddRoot"
    /\ Announces(pending_changes[j], pending_changes[i].file)
    /\ \A k \in (i + 1)..(j - 1) : pending_changes[k].kind # "RemoveFile"

(***************************************************************************)
(* C11  Path outside any root: when load, path2file, file_for_path,        *)
(* add_file_overlay, change_file_overlay or remove_file_overlay is called  *)
(* with a path that no root filter accepts, the call does not fail, it     *)
(* returns nothing, and the file records, the per-root file sets and the   *)
(* pending log are as before the call.                                      *)
(***************************************************************************)
PathOps ==
  {"load", "path2file", "file_for_path", "add_file_overlay",
   "change_file_overlay", "remove_file_overlay"}

PathOutsideAnyRootStep ==
  (last'.call.op \in PathOps /\ last'.call.root = 0) =>
    /\ ~ panicked'
    /\ last'.ret = None
    /\ files' = files
    /\ root2files' = root2files
    /\ pending_changes' = pending_changes

PathOutsideAnyRoot == [][PathOutsideAnyRootStep]_vars

\* change_file_overlay was called with a path outside every root while a
\* file was live and an event pending
PathOutsideAnyRootWitness ==
  /\ last.call.op = "change_file_overlay"
  /\ last.call.root = 0
  /\ Live # {}
  /\ pending_changes # << >>
  /\ ~ panicked

(***************************************************************************)
(* C12  Overlay misuse is a hard failure: change_file_overlay or           *)
(* remove_file_overlay on a path that resolves to a root where no file is  *)
(* live at the path (never added, or removed) panics, and the file         *)
(* records, the per-root file sets and the pending log are as before.      *)
(***************************************************************************)
OverlayMisuseStep ==
  (/\ last'.call.op \in {"change_file_overlay", "remove_file_overlay"}
   /\ last'.call.root # 0
   /\ FileAt(last'.call.root, last'.call.path) = None) =>
    /\ panicked'
    /\ files' = files
    /\ root2files' = root2files
    /\ pending_changes' = pending_changes

OverlayMisuse == [][OverlayMisuseStep]_vars

\* remove_file_overlay has panicked on a path whose file had been added
\* and removed, with the RemoveFile event still pending
OverlayMisuseWitness ==
  /\ panicked
  /\ last.call.op = "remove_file_overlay"
  /\ last.call.root # 0
  /\ FileAt(last.call.root, last.call.path) = None
  /\ \E file \in Handles \ Live : files[file].root = last.call.root
  /\ \E i \in 1..Len(pending_changes) :
       /\ pending_changes[i].kind = "RemoveFile"
       /\ pending_changes[i].root = last.call.root
       /\ pending_changes[i].path = last.call.path

(***************************************************************************)
(* C13  Forced load: load of a path inside a root returns the handle of    *)
(* the file live at the path and changes nothing when there is one;        *)
(* otherwise it makes exactly one file record, not overlayed, whose text   *)
(* is what the disk read gave ("" when the read failed), appends exactly   *)
(* one AddFile event with the new handle and that text, and returns the    *)
(* new handle.  It never fails.                                             *)
(***************************************************************************)
ForcedLoadStep ==
  (last'.call.op = "load" /\ last'.call.root # 0) =>
    LET root == last'.call.root
        path == last'.call.path
        text == last'.call.text
        new == Len(files) + 1
    IN  /\ ~ panicked'
        /\ FileAt(root, path) # None =>
              /\ last'.ret = FileAt(root, path)
              /\ files' = files
              /\ root2files' = root2files
              /\ pending_changes' = pending_changes
        /\ FileAt(root, path) = None =>
              /\ last'.ret = Some(new)
              /\ files' = Append(files, VfsFileData(root, path, FALSE, text))
              /\ root2files' = [root2files EXCEPT ![root] = @ \cup {new}]
              /\ pending_changes' =
                   Append(pending_changes,
                          VfsChange_AddFile(root, new, path, text))
              /\ FileAtNext(root, path) = Some(new)

ForcedLoad == [][ForcedLoadStep]_vars

\* a load returned the handle of a live file whose text is not what the
\* disk read gave, and left everything as it was
ForcedLoadWitness ==
  /\ last.call.op = "load"
  /\ last.call.root # 0
  /\ last.noop
  /\ last.ret # None
  /\ last.ret = FileAt(last.call.root, last.call.path)
  /\ files[last.ret[1]].text # last.call.text

(***************************************************************************)
(* C14  Overlay release, as claimed: right after remove_file_overlay has   *)
(* reverted a file made by add_file_overlay to what the disk read gave,    *)
(* a ChangeSingleFile for the file replaces its text and appends a         *)
(* ChangeFile event, and a RemoveSingleFile for it removes it and appends  *)
(* a RemoveFile event.                                                      *)
(***************************************************************************)
OverlayReleaseStep ==
  (/\ last.call.op = "remove_file_overlay"
   /\ last.call.root # 0
   /\ last.ret # None
   /\ FileAt(last.call.root, last.call.path) = last.ret
   /\ \E i \in 1..Len(produced), text \in OverlayTexts :
        produced[i] = VfsChange_AddFile(last.call.root, last.ret[1],
                                        last.call.path, text)
   /\ last'.call.op \in {"ChangeSingleFile", "RemoveSingleFile"}
   /\ last'.call.root = last.call.root
   /\ last'.call.path = last.call.path) =>
    LET root == last.call.root
        path == last.call.path
        file == last.ret[1]
    IN  IF last'.call.op = "ChangeSingleFile"
        THEN /\ files'[file].text = last'.call.text
             /\ pending_changes' =
                  Append(pending_changes,
                         VfsChange_ChangeFile(file, last'.call.text))
        ELSE /\ file \notin root2files'[root]
             /\ pending_changes' =
                  Append(pending_changes,
                         VfsChange_RemoveFile(root, file, path))

OverlayRelease == [][OverlayReleaseStep]_vars

(***************************************************************************)
(* C15  Resolution does not depend on scan order, as claimed: at most one  *)
(* root filter accepts a path, because a path under a nested root is       *)
(* excluded from the roots around it, and so the root Roots::find returns  *)
(* is the most deeply nested configured root that contains the path,       *)
(* whichever filter is scanned first.                                       *)
(***************************************************************************)
\* the roots whose filter accepts the path
Claiming(path, is_dir) ==
  {root \in RootIds : can_contain(roots[root], path, is_dir) # None}

ResolutionOrderIndependent ==
  \A path \in Paths : \A is_dir \in IsDirAnswers(path) :
    /\ Cardinality(Claiming(path, is_dir)) <= 1
    /\ \A first \in Claiming(path, is_dir) : \A other \in RootIds :
         starts_with(path, roots[other].root) =>
           Len(roots[other].root) <= Len(roots[first].root)

(***************************************************************************)
(* C16  Bulk add event content, as claimed: handling BulkLoadRoot for a    *)
(* root appends exactly one event, an AddRoot event of the root, whose     *)
(* list names exactly the files live in the root after the step, each      *)
(* once, with its handle, relative path and text.                           *)
(***************************************************************************)
BulkAddListsLiveFilesStep ==
  last'.call.op = "BulkLoadRoot" =>
    /\ Len(pending_changes') = Len(pending_changes) + 1
    /\ SubSeq(pending_changes', 1, Len(pending_changes)) = pending_changes
    /\ LET root == last'.call.root
           e == pending_changes'[Len(pending_changes')]
       IN  /\ e.kind = "AddRoot"
           /\ e.root = root
           /\ {e.files[k].file : k \in 1..Len(e.files)} = root2files'[root]
           /\ \A k, l \in 1..Len(e.files) :
                e.files[k].file = e.files[l].file => k = l
           /\ \A k \in 1..Len(e.files) :
                /\ e.files[k].path = files'[e.files[k].file].path
                /\ e.files[k].text = files'[e.files[k].file].text

BulkAddListsScannedFilesStep ==
  last'.call.op = "BulkLoadRoot" =>
    /\ Len(pending_changes') = Len(pending_changes) + 1
    /\ SubSeq(pending_changes', 1, Len(pending_changes)) = pending_changes
    /\ LET root == last'.call.root
           scan == last'.call.scan
           e == pending_changes'[Len(pending_changes')]
       IN  /\ e.kind = "AddRoot"
           /\ e.root = root
           /\ Len(e.files) = Len(scan)
           /\ \A k \in 1..Len(scan) :
                /\ e.files[k].path = scan[k].path
                /\ Some(e.files[k].file) = FileAtNext(root, scan[k].path)
                /\ e.files[k].text = files'[e.files[k].file].text
           /\ root2files'[root] =
                root2files[root] \cup {e.files[k].file : k \in 1..Len(e.files)}

HandlesFor(root, path) ==
  {file \in Handles : files[file].root = root /\ files[file].path = path}
    \cup UNION {AnnouncedAt(produced[i], root, path) : i \in 1..Len(produced)}
    \cup {file \in Handles :
            /\ last.call.op \in {"load", "add_file_overlay"}
            /\ last.call.root = root
            /\ last.call.path = path
            /\ last.ret = Some(file)}

NeverRemoved(root, path) ==
  \A i \in 1..Len(produced) :
    ~ (/\ produced[i].kind = "RemoveFile"
       /\ produced[i].root = root
       /\ produced[i].path = path)

LoadScanRace ==
  \A root \in RootIds : \A path \in RelPaths :
    NeverRemoved(root, path) => Cardinality(HandlesFor(root, path)) <= 1

\* load, the root's BulkLoadRoot, add_file_overlay and AddSingleFile were
\* all handled for one path: one handle, announced by the AddFile event of
\* the load and listed by the AddRoot event
LoadScanRaceWitness ==
  \E root \in RootIds : \E path \in RelPaths :
    /\ NeverRemoved(root, path)
    /\ Cardinality(HandlesFor(root, path)) = 1
    /\ last.call = TaskCall(AddSingleFile(root, path, last.call.text))
    /\ last.noop
    /\ \E file \in root2files[root] :
         /\ files[file].is_overlayed
         /\ files[file].text \in OverlayTexts
         /\ \E i \in 1..Len(produced) :
              /\ produced[i].kind = "AddFile"
              /\ produced[i].file = file
              /\ produced[i].text \in ReadTexts
         /\ \E i \in 1..Len(produced) :
              /\ produced[i].kind = "AddRoot"
              /\ produced[i].root = root
              /\ \E k \in 1..Len(produced[i].files) :
                   produced[i].files[k].file = file

(***************************************************************************)
(* C18  Root Set construction, as claimed: for every list of root          *)
(* directories given to the constructor, the excluded directories of each  *)
(* root's filter are exactly the directories of the other roots that are   *)
(* strictly nested inside the root: never the root's own directory, a      *)
(* directory around it or an unrelated one, and no nested root is missing. *)
(***************************************************************************)
\* the directories in a list of excluded directories
Excluded(root) ==
  {roots[root].excluded_dirs[k] : k \in 1..Len(roots[root].excluded_dirs)}

StrictlyNested(root) ==
  {roots[other].root : other \in {other \in RootIds \ {root} :
      /\ starts_with(roots[other].root, roots[root].root)
      /\ roots[other].root # roots[root].root}}

ExcludedAreNestedRoots ==
  \A root \in RootIds : Excluded(root) = StrictlyNested(root)

(***************************************************************************)
(* C19  Change log replay consistency: replaying the events produced so    *)
(* far, in order (an AddFile event and every entry of an AddRoot event     *)
(* set handle -> (root, path, text), a ChangeFile event sets the handle's  *)
(* text, a RemoveFile event deletes the handle), gives exactly the live    *)
(* file handles with the root, relative path and text of their records.    *)
(***************************************************************************)
\* the map m with handle file set to data
Put(m, file, data) ==
  [h \in DOMAIN m \cup {file} |-> IF h = file THEN data ELSE m[h]]

RECURSIVE PutAll(_, _, _)
\* the entries of an AddRoot event put into m
PutAll(m, root, entries) ==
  IF entries = << >> THEN m
  ELSE PutAll(Put(m, Head(entries).file,
                  [root |-> root, path |-> Head(entries).path,
                   text |-> Head(entries).text]),
              root, Tail(entries))

\* one event applied to m
Apply(m, e) ==
  CASE e.kind = "AddFile" ->
         Put(m, e.file, [root |-> e.root, path |-> e.path, text |-> e.text])
    [] e.kind = "AddRoot" -> PutAll(m, e.root, e.files)
    [] e.kind = "ChangeFile" ->
         IF e.file \in DOMAIN m THEN [m EXCEPT ![e.file].text = e.text] ELSE m
    [] e.kind = "RemoveFile" -> [h \in DOMAIN m \ {e.file} |-> m[h]]

RECURSIVE Replay(_)
Replay(events) ==
  IF events = << >> THEN [h \in {} |-> 0]
  ELSE Apply(Replay(SubSeq(events, 1, Len(events) - 1)), events[Len(events)])

ReplayConsistent ==
  Replay(produced) =
    [file \in Live |-> [root |-> files[file].root, path |-> files[file].path,
                        text |-> files[file].text]]

\* an AddRoot event listing a file and a ChangeFile or RemoveFile event
\* were produced, and a live file has a text that an overlay or a worker
\* result gave it
ReplayConsistentWitness ==
  /\ \E i \in 1..Len(produced) :
       produced[i].kind = "AddRoot" /\ produced[i].files # << >>
  /\ \E i \in 1..Len(produced) : produced[i].kind \in {"ChangeFile", "RemoveFile"}
  /\ \E file \in Live : files[file].text \in OverlayTexts \cup TaskTexts

(***************************************************************************)
(* C20  Membership consistency: after every step each file handle is in    *)
(* at most one per-root file set, and then in the set of the root of its   *)
(* record; a handle for which a RemoveFile event was produced is in none;  *)
(* and the assertion of remove_file never fails: a step panics only when   *)
(* change_file_overlay or remove_file_overlay finds no live file.           *)
(***************************************************************************)
MembershipConsistentStep ==
  /\ \A file \in 1..Len(files') : \A root \in RootIds :
       file \in root2files'[root] => files'[file].root = root
  /\ \A root \in RootIds : root2files'[root] \subseteq 1..Len(files')
  /\ \A i \in 1..Len(produced') :
       produced'[i].kind = "RemoveFile" =>
         \A root \in RootIds : produced'[i].file \notin root2files'[root]
  /\ panicked' =>
       /\ last'.call.op \in {"change_file_overlay", "remove_file_overlay"}
       /\ last'.call.root # 0
       /\ FileAt(last'.call.root, last'.call.path) = None

MembershipConsistent == [][MembershipConsistentStep]_vars

\* a file was removed without a panic, its RemoveFile event produced, and
\* another file is live next to the removed record
MembershipConsistentWitness ==
  /\ ~ panicked
  /\ Live # {}
  /\ \E i \in 1..Len(produced) :
       /\ produced[i].kind = "RemoveFile"
       /\ produced[i].file \in Handles \ Live
       /\ files[produced[i].file].path = << >>

====
